---- MODULE Spec2Model ----
(***************************************************************************)
(* A model of the wireframe renderer: the matrix engine (matrix/matrix.go), *)
(* the edge model and rasterizer (package draw), the pixel buffer          *)
(* (display/display.go) and the script interpreter (parser/parser.go)      *)
(* started by main (main.go).                                              *)
(*                                                                         *)
(* Numbers.  Matrix entries are float64 in the source; the scripts the     *)
(* model reads hold small integers, on which float64 arithmetic is exact,  *)
(* so entries are integers here.  Rotation angles are multiples of 90      *)
(* degrees, whose sine and cosine are taken as the exact values -1, 0, 1.  *)
(* The rasterizer receives arbitrary float64 coordinates: a coordinate     *)
(* passed to DrawLine, plot or float64ToInt is a fixed-point number, the   *)
(* integer n standing for n / Den.                                         *)
(*                                                                         *)
(* Slices.  A matrix is a sequence of rows, <<>> being both nil and the    *)
(* empty slice (Go's len is 0 for both).  Rows are numbered from 1 where   *)
(* the source numbers them from 0; pixel-buffer rows and columns keep the  *)
(* source's numbering from 0.  A run-time panic (index out of range, a     *)
(* failed external command) ends the run with status "panic".              *)
(*                                                                         *)
(* Scripts.  The interpreter reads scripts of at most MaxCmds commands     *)
(* whose argument lines are well formed.  The commands circle, sphere,     *)
(* torus, hermite and bezier sample sines, cosines and cubics at float64   *)
(* parameters: the parameters are computed bit for bit, the sampled        *)
(* coordinates are kept as terms over them.  Scripts with these commands   *)
(* are read by a specification of their own, SpecShapes, in which no       *)
(* command builds a transform.  Circles and curves are sampled in the      *)
(* source's steps of 0.001; spheres and tori, sampled in steps of 0.01 in  *)
(* the source, are sampled in steps of 2^-GridBits.                        *)
(***************************************************************************)
EXTENDS Integers, Sequences, FiniteSets, TLC

\* The display is XRES x YRES pixels (500 x 500 in display.go, scaled down).
XRES == 5
YRES == 5
\* Fixed-point denominator of rasterizer coordinates.
Den == 4
\* The longest script read, in commands.
MaxCmds == 4
\* The longest script of shape commands read, in commands.
MaxShapes == 2
\* GenerateSphere and GenerateTorus step their angles by 2^-GridBits of a
\* turn (by 0.01 in the source, scaled up).
GridBits == 2

VARIABLES
    transform,          \* ParseFile's running transform matrix
    edges,              \* ParseFile's edge matrix
    screen,             \* the pixel buffer: row -> column -> colour array
    DefaultDrawColor,   \* draw.DefaultDrawColor: the colour array in use
    heap,               \* the colour arrays SetColor allocated, by address
    status,             \* "running", "done" (quit or end of file), "panic"
    line,               \* the command line last read
    params,             \* its arguments: [word, nums]
    nread,              \* commands read so far
    plotted             \* the plot calls of a direct call of DrawLine, in order

vars == <<transform, edges, screen, DefaultDrawColor, heap, status, line,
          params, nread, plotted>>

\* The arguments of a command: nums are the numbers of its argument line, word
\* is its one textual argument (rotate's axis, color's name), "" if none.
NoParams == [word |-> "", nums |-> <<>>]

(***************************************************************************)
(* matrix/matrix.go                                                        *)
(***************************************************************************)

NewMatrix(rows, cols) == [i \in 1..rows |-> [j \in 1..cols |-> 0]]

MakeIdentity(matrix) ==
    [i \in 1..Len(matrix) |->
        [j \in 1..Len(matrix[i]) |-> IF i = j THEN 1 ELSE 0]]

MakeBezier ==
    <<<<-1, 3, -3, 1>>, <<3, -6, 3, 0>>, <<-3, 3, 0, 0>>, <<1, 0, 0, 0>>>>

MakeHermite ==
    <<<<2, -2, 1, 1>>, <<-3, 3, -2, -1>>, <<0, 0, 1, 0>>, <<1, 0, 0, 0>>>>

ExtractColumn(matrix, colIndex) ==
    [i \in 1..Len(matrix) |-> matrix[i][colIndex]]

RECURSIVE dotFrom(_, _, _)
dotFrom(x, y, i) ==
    IF i > Len(x) THEN 0 ELSE x[i] * y[i] + dotFrom(x, y, i + 1)

dot(x, y) == dotFrom(x, y, 1)

\* MultiplyMatrices panics on m2[0] when m2 has no row, and in dot when a
\* row of m1 is longer than a column of m2.
MultiplyPanics(m1, m2) ==
    \/ Len(m2) = 0
    \/ /\ Len(m2[1]) > 0
       /\ \E i \in 1..Len(m1) : Len(m1[i]) > Len(m2)

\* MultiplyMatrices reading m1 by columns instead of rows.
MultiplyMatricesByColumn(m1, m2) ==
    [i \in 1..Len(m1) |->
        [j \in 1..Len(m2[1]) |->
            dot(ExtractColumn(m1, i), ExtractColumn(m2, j))]]

\* The product stored through the second pointer.
MultiplyMatrices(m1, m2) ==
    [i \in 1..Len(m1) |->
        [j \in 1..Len(m2[1]) |-> dot(m1[i], ExtractColumn(m2, j))]]

MakeTranslationMatrix(p) ==
    [MakeIdentity(NewMatrix(4, 4)) EXCEPT ![1][4] = p[1], ![2][4] = p[2],
                                          ![3][4] = p[3]]

MakeDilationMatrix(p) ==
    [MakeIdentity(NewMatrix(4, 4)) EXCEPT ![1][1] = p[1], ![2][2] = p[2],
                                          ![3][3] = p[3]]

\* math.Sin and math.Cos of theta / 180 * math.Pi, theta a multiple of 90.
Sin(theta) == CASE theta % 360 = 0 -> 0 [] theta % 360 = 90 -> 1
                [] theta % 360 = 180 -> 0 [] theta % 360 = 270 -> -1

Cos(theta) == CASE theta % 360 = 0 -> 1 [] theta % 360 = 90 -> 0
                [] theta % 360 = 180 -> -1 [] theta % 360 = 270 -> 0

MakeRotX(theta) ==
    [MakeIdentity(NewMatrix(4, 4)) EXCEPT
        ![2][2] = Cos(theta), ![2][3] = -Sin(theta),
        ![3][2] = Sin(theta), ![3][3] = Cos(theta)]

MakeRotY(theta) ==
    [MakeIdentity(NewMatrix(4, 4)) EXCEPT
        ![1][1] = Cos(theta), ![1][3] = Sin(theta),
        ![3][1] = -Sin(theta), ![3][3] = Cos(theta)]

MakeRotZ(theta) ==
    [MakeIdentity(NewMatrix(4, 4)) EXCEPT
        ![1][1] = Cos(theta), ![1][2] = -Sin(theta),
        ![2][1] = Sin(theta), ![2][2] = Cos(theta)]

(***************************************************************************)
(* float64 loop parameters                                                 *)
(***************************************************************************)

\* The parameter of a sampling loop is a float64 in [0, 4096) that is a
\* multiple of 2^-60: it is held as the 4 digits in base 2^20 of that
\* multiple, the least significant first.
Base == 2^20

Zero == <<0, 0, 0, 0>>
One == <<0, 0, 0, 1>>
Half == <<0, 0, Base \div 2, 0>>
\* The float64 nearest to 0.001: 1152921504606847 * 2^-60.
Milli == <<813695, 603979, 1048, 0>>

RECURSIVE BitLen(_)
BitLen(n) == IF n = 0 THEN 0 ELSE 1 + BitLen(n \div 2)

\* The number of significant bits of the multiple.
Bits(v) ==
    IF v[4] > 0 THEN 60 + BitLen(v[4])
    ELSE IF v[3] > 0 THEN 40 + BitLen(v[3])
    ELSE IF v[2] > 0 THEN 20 + BitLen(v[2])
    ELSE BitLen(v[1])

Carry(v) ==
    LET c1 == v[1] \div Base
        c2 == (v[2] + c1) \div Base
        c3 == (v[3] + c2) \div Base
    IN  <<v[1] % Base, (v[2] + c1) % Base, (v[3] + c2) % Base, v[4] + c3>>

\* Rounding to the 53 significant bits of a float64, ties to even.
Round53(v) ==
    LET d == Bits(v) - 53
    IN  IF d <= 0 THEN v
        ELSE LET p == 2^d
                 r == v[1] % p
                 odd == (v[1] \div p) % 2 = 1
                 up == 2 * r > p \/ (2 * r = p /\ odd)
             IN  Carry([v EXCEPT ![1] = @ - r + IF up THEN p ELSE 0])

\* The float64 sum a + b.
FloatAdd(a, b) == Round53(Carry([k \in 1..4 |-> a[k] + b[k]]))

RECURSIVE LeqFrom(_, _, _)
LeqFrom(a, b, k) ==
    IF k = 0 THEN TRUE
    ELSE IF a[k] # b[k] THEN a[k] < b[k]
    ELSE LeqFrom(a, b, k - 1)

\* a <= b.
FloatLeq(a, b) == LeqFrom(a, b, 4)

\* for t := 0.0; t <= lim; t += step: one iteration, acc the values that t
\* took.
ForLoopBody(st, step) ==
    [t |-> FloatAdd(st.t, step), acc |-> Append(st.acc, st.t)]

\* At most n iterations (split in two halves to keep the evaluation
\* shallow).
RECURSIVE ForLoopRun(_, _, _, _)
ForLoopRun(st, lim, step, n) ==
    IF ~FloatLeq(st.t, lim) \/ n = 0 THEN st
    ELSE IF n = 1 THEN ForLoopBody(st, step)
    ELSE ForLoopRun(ForLoopRun(st, lim, step, n \div 2), lim, step,
                    n - n \div 2)

\* The iterations left, n of them at first, then twice as many each time.
RECURSIVE ForLoopFrom(_, _, _, _)
ForLoopFrom(st, lim, step, n) ==
    IF FloatLeq(st.t, lim)
    THEN ForLoopFrom(ForLoopRun(st, lim, step, n), lim, step, 2 * n)
    ELSE st.acc

\* The values of t in the iterations of the loop, in order.
ForLoop(lim, step) == ForLoopFrom([t |-> Zero, acc |-> <<>>], lim, step, 1)

(***************************************************************************)
(* display/display.go                                                      *)
(***************************************************************************)

\* A pixel holds a colour array.  FreshBlack stands for the array
\* []int{0, 0, 0} that NewScreen and ClearScreen allocate for each pixel and
\* that nothing else refers to; any other value is the address in heap of an
\* array that SetColor allocated (1: the array DefaultDrawColor starts with).
FreshBlack == 0

ColorOf(h, ref) == IF ref = FreshBlack THEN <<0, 0, 0>> ELSE h[ref]

NewScreen == [i \in 0..(YRES - 1) |-> [j \in 0..(XRES - 1) |-> FreshBlack]]

ClearScreen(scr) ==
    [i \in DOMAIN scr |-> [j \in 0..(XRES - 1) |-> FreshBlack]]

(***************************************************************************)
(* package draw: the edge model                                            *)
(***************************************************************************)

\* AddPoint panics on m[0]..m[3] when the matrix has fewer than 4 rows.
AddPanics(m) == Len(m) < 4

AddPoint(m, x, y, z) ==
    [m EXCEPT ![1] = Append(@, x), ![2] = Append(@, y),
              ![3] = Append(@, z), ![4] = Append(@, 1)]

AddEdge(m, p) == AddPoint(AddPoint(m, p[1], p[2], p[3]), p[4], p[5], p[6])

RECURSIVE AddEdges(_, _)
AddEdges(m, es) ==
    IF es = <<>> THEN m ELSE AddEdges(AddEdge(m, Head(es)), Tail(es))

\* BoxEdges with the tenth edge repeated in place of the twelfth.
BoxEdgesRepeated(a) ==
    LET x == a[1]  y == a[2]  z == a[3]
        width == a[4]  height == a[5]  depth == a[6]
    IN  << <<x, y, z, x + width, y, z>>,
           <<x, y, z, x, y - height, z>>,
           <<x, y, z, x, y, z - depth>>,
           <<x, y - height, z, x, y - height, z - depth>>,
           <<x, y - height, z, x + width, y - height, z>>,
           <<x, y - height, z - depth, x + width, y - height, z - depth>>,
           <<x + width, y - height, z, x + width, y - height, z - depth>>,
           <<x, y, z - depth, x + width, y, z - depth>>,
           <<x, y, z - depth, x, y - height, z - depth>>,
           <<x + width, y, z, x + width, y - height, z>>,
           <<x + width, y, z, x + width, y, z - depth>>,
           <<x + width, y, z, x + width, y - height, z>> >>

\* The argument lists of AddBox's twelve AddEdge calls, in order.
BoxEdges(a) ==
    LET x == a[1]  y == a[2]  z == a[3]
        width == a[4]  height == a[5]  depth == a[6]
    IN  << <<x, y, z, x + width, y, z>>,
           <<x, y, z, x, y - height, z>>,
           <<x, y, z, x, y, z - depth>>,
           <<x, y - height, z, x, y - height, z - depth>>,
           <<x, y - height, z, x + width, y - height, z>>,
           <<x, y - height, z - depth, x + width, y - height, z - depth>>,
           <<x + width, y - height, z, x + width, y - height, z - depth>>,
           <<x, y, z - depth, x + width, y, z - depth>>,
           <<x, y, z - depth, x, y - height, z - depth>>,
           <<x + width, y, z, x + width, y - height, z>>,
           <<x + width, y, z, x + width, y, z - depth>>,
           <<x + width, y, z - depth, x + width, y - height, z - depth>> >>

AddBox(m, a) == AddEdges(m, BoxEdges(a))

\* AddPoint for each point of pts in turn.
AddPoints(m, pts) ==
    LET n == Len(pts)
        row(c) == [k \in 1..n |-> pts[k][c]]
    IN  <<m[1] \o row(1), m[2] \o row(2), m[3] \o row(3),
          m[4] \o [k \in 1..n |-> 1]>>

\* The step of AddCircle, as 2^-10.
CircleStepBinary == <<0, 0, Base \div 1024, 0>>

\* The step of the loop of AddCircle.
CircleStep == Milli

\* A sampled coordinate is the term that computes it: fn names the
\* expression of the source, the other fields hold its operands.
CirclePoint(a, t) ==
    <<[fn |-> "r*cos(2*pi*t)+c", r |-> a[4], t |-> t, c |-> a[1]],
      [fn |-> "r*sin(2*pi*t)+c", r |-> a[4], t |-> t, c |-> a[2]],
      0>>

CirclePoints(a, ts) ==
    [k \in 1..Len(ts) |-> CirclePoint(a, ts[k])]

AddCircle(m, a) ==
    AddPoints(m, CirclePoints(a, ForLoop(One, CircleStep)))

generateCurveCoefs(p0, p1, p2, p3, curveType) ==
    LET coefGenerator == IF curveType = "hermite" THEN MakeHermite
                         ELSE IF curveType = "bezier" THEN MakeBezier
                         ELSE <<>>
    IN  MultiplyMatrices(coefGenerator, <<<<p0>>, <<p1>>, <<p2>>, <<p3>>>>)

CubicEval(x, coefs) ==
    [fn |-> "c0*t^3+c1*t^2+c2*t+c3", t |-> x,
     c |-> <<coefs[1][1], coefs[2][1], coefs[3][1], coefs[4][1]>>]

CurvePoints(xCoefs, yCoefs, ts) ==
    [k \in 1..Len(ts) |->
        <<CubicEval(ts[k], xCoefs), CubicEval(ts[k], yCoefs), 0>>]

\* p holds x0, y0, x1, y1, x2, y2, x3, y3.
AddCurve(m, p, step, curveType) ==
    AddPoints(m, CurvePoints(generateCurveCoefs(p[1], p[3], p[5], p[7],
                                                curveType),
                             generateCurveCoefs(p[2], p[4], p[6], p[8],
                                                curveType),
                             ForLoop(One, step)))

\* The step of the loops of GenerateSphere and GenerateTorus.
GridStep == <<0, 0, 2^(20 - GridBits), 0>>

\* The pairs (i, j) of a surface, i in the outer and j in the inner loop.
GridPoints(is, js) ==
    [k \in 1..(Len(is) * Len(js)) |->
        <<is[(k - 1) \div Len(js) + 1], js[((k - 1) % Len(js)) + 1]>>]

GenerateSphere(cx, cy, cz, r) ==
    LET point(i, j) ==
            <<[fn |-> "r*cos(theta)+c", r |-> r, j |-> j, c |-> cx],
              [fn |-> "r*sin(theta)*cos(fi)+c", r |-> r, j |-> j, i |-> i,
               c |-> cy],
              [fn |-> "r*sin(theta)*sin(fi)+c", r |-> r, j |-> j, i |-> i,
               c |-> cz]>>
        grid == GridPoints(ForLoop(One, GridStep), ForLoop(Half, GridStep))
    IN  [k \in 1..Len(grid) |-> point(grid[k][1], grid[k][2])]

\* AddEdge(m, p[0], p[1], p[2], p[0]+1, p[1]+1, p[2]+1) for each point p
\* in turn.
AddPointEdges(m, points) ==
    LET n == Len(points)
        row(c) == [k \in 1..(2 * n) |->
                     IF k % 2 = 1 THEN points[(k + 1) \div 2][c]
                     ELSE [fn |-> "p+1", p |-> points[k \div 2][c]]]
    IN  <<m[1] \o row(1), m[2] \o row(2), m[3] \o row(3),
          m[4] \o [k \in 1..(2 * n) |-> 1]>>

AddSphere(m, a) == AddPointEdges(m, GenerateSphere(a[1], a[2], a[3], a[4]))

GenerateTorus(cx, cy, cz, r2, r1) ==
    LET point(i, j) ==
            <<[fn |-> "cos(fi)*(r2*cos(theta)+r1)+c", r2 |-> r2, r1 |-> r1,
               j |-> j, i |-> i, c |-> cx],
              [fn |-> "r2*sin(theta)+c", r2 |-> r2, j |-> j, c |-> cy],
              [fn |-> "-1*sin(fi)*(r2*cos(theta)+r1)+c", r2 |-> r2,
               r1 |-> r1, j |-> j, i |-> i, c |-> cz]>>
        grid == GridPoints(ForLoop(One, GridStep), ForLoop(One, GridStep))
    IN  [k \in 1..Len(grid) |-> point(grid[k][1], grid[k][2])]

AddTorus(m, a) ==
    AddPointEdges(m, GenerateTorus(a[1], a[2], a[3], a[4], a[5]))

(***************************************************************************)
(* package draw: the rasterizer                                            *)
(***************************************************************************)

\* The fixed-point number of an integer.
Fix(n) == n * Den

\* Go's int(f): the conversion truncates toward zero.
Trunc(f) == IF f >= 0 THEN f \div Den ELSE -((-f) \div Den)

float64ToInt(f) ==
    IF 2 * (f - Fix(Trunc(f))) < Den THEN Trunc(f) ELSE Trunc(f + Den)

\* The bounds test of plot, admitting the column XRES and the row YRES.
PlotGuardInclusive(newX, newY) ==
    newX >= 0 /\ newX <= XRES /\ newY >= 0 /\ newY <= YRES

\* The bounds test of plot.
PlotGuard(newX, newY) ==
    newX >= 0 /\ newX < XRES /\ newY >= 0 /\ newY < YRES

\* plot on the buffer of s = [ok, scr]: ok turns FALSE when the write
\* screen[newY][newX] indexes outside the buffer (a panic).
plot(s, color, x, y) ==
    LET newX == float64ToInt(x)
        newY == YRES - float64ToInt(y) - 1
    IN  IF ~s.ok \/ ~PlotGuard(newX, newY) THEN s
        ELSE IF newY \in DOMAIN s.scr /\ newX \in DOMAIN s.scr[newY]
             THEN [s EXCEPT !.scr[newY][newX] = color]
             ELSE [s EXCEPT !.ok = FALSE]

\* plot called on pts[lo], ..., pts[hi] in this order (the calls are split in
\* two halves to keep the evaluation shallow).
RECURSIVE PlotRange(_, _, _, _, _)
PlotRange(s, color, pts, lo, hi) ==
    IF ~s.ok \/ lo > hi THEN s
    ELSE IF lo = hi THEN plot(s, color, pts[lo][1], pts[lo][2])
    ELSE LET mid == (lo + hi) \div 2
         IN  PlotRange(PlotRange(s, color, pts, lo, mid), color, pts,
                       mid + 1, hi)

PlotAll(s, color, pts) == PlotRange(s, color, pts, 1, Len(pts))

\* The loops of DrawLine; acc collects the plot calls.
RECURSIVE VerticalLoop(_, _, _, _)
VerticalLoop(x, y, y1, acc) ==
    IF y <= y1 THEN VerticalLoop(x, y + Den, y1, Append(acc, <<x, y>>))
    ELSE acc

RECURSIVE Octant1Loop(_, _, _, _, _, _, _, _)
Octant1Loop(x, y, d, A, B, x1, y1, acc) ==
    IF x <= x1 /\ y <= y1
    THEN Octant1Loop(x + Den,
                     IF d > 0 THEN y + Den ELSE y,
                     (IF d > 0 THEN d + 2 * B ELSE d) + 2 * A,
                     A, B, x1, y1, Append(acc, <<x, y>>))
    ELSE acc

RECURSIVE Octant2Loop(_, _, _, _, _, _, _, _)
Octant2Loop(x, y, d, A, B, x1, y1, acc) ==
    IF x <= x1 /\ y <= y1
    THEN Octant2Loop(IF d < 0 THEN x + Den ELSE x,
                     y + Den,
                     (IF d < 0 THEN d + 2 * A ELSE d) + 2 * B,
                     A, B, x1, y1, Append(acc, <<x, y>>))
    ELSE acc

RECURSIVE Octant8Loop(_, _, _, _, _, _, _, _)
Octant8Loop(x, y, d, A, B, x1, y1, acc) ==
    IF x <= x1 /\ y >= y1
    THEN Octant8Loop(x + Den,
                     IF d < 0 THEN y - Den ELSE y,
                     (IF d < 0 THEN d - 2 * B ELSE d) + 2 * A,
                     A, B, x1, y1, Append(acc, <<x, y>>))
    ELSE acc

\* Octant7Loop stepping x when d < 0, as octant 2 does.
RECURSIVE Octant7LoopAsOctant2(_, _, _, _, _, _, _, _)
Octant7LoopAsOctant2(x, y, d, A, B, x1, y1, acc) ==
    IF x <= x1 /\ y >= y1
    THEN Octant7LoopAsOctant2(IF d < 0 THEN x + Den ELSE x,
                              y - Den,
                              (IF d < 0 THEN d + 2 * A ELSE d) - 2 * B,
                              A, B, x1, y1, Append(acc, <<x, y>>))
    ELSE acc

RECURSIVE Octant7Loop(_, _, _, _, _, _, _, _)
Octant7Loop(x, y, d, A, B, x1, y1, acc) ==
    IF x <= x1 /\ y >= y1
    THEN Octant7Loop(IF d > 0 THEN x + Den ELSE x,
                     y - Den,
                     (IF d > 0 THEN d + 2 * A ELSE d) - 2 * B,
                     A, B, x1, y1, Append(acc, <<x, y>>))
    ELSE acc

\* The plot calls of DrawLine(screen, px0, py0, px1, py1), in order.  After
\* the swap B < 0 unless B = 0, so slope = A / (-B) is compared with 0 and
\* 1 by comparing A with 0 and with -B.
DrawLinePoints(px0, py0, px1, py1) ==
    LET swap == px1 < px0
        x0 == IF swap THEN px1 ELSE px0
        x1 == IF swap THEN px0 ELSE px1
        y0 == IF swap THEN py1 ELSE py0
        y1 == IF swap THEN py0 ELSE py1
        A == y1 - y0
        B == x0 - x1
    IN  IF B = 0
        THEN VerticalLoop(x0, IF y1 < y0 THEN y1 ELSE y0,
                          IF y1 < y0 THEN y0 ELSE y1, <<>>)
        ELSE IF A >= 0 /\ A <= -B
        THEN Octant1Loop(x0, y0, 2 * A + B, A, B, x1, y1, <<>>)
        ELSE IF A > -B
        THEN Octant2Loop(x0, y0, A + 2 * B, A, B, x1, y1, <<>>)
        ELSE IF A < 0 /\ A >= B
        THEN Octant8Loop(x0, y0, 2 * A - B, A, B, x1, y1, <<>>)
        ELSE Octant7Loop(x0, y0, A - 2 * B, A, B, x1, y1, <<>>)

DrawLine(s, color, x0, y0, x1, y1) ==
    PlotAll(s, color, DrawLinePoints(x0, y0, x1, y1))

\* DrawLines panics on edges[0] when the matrix has no row.
DrawLinesPanics(e) == Len(e) = 0

\* The values that i takes in the loop of DrawLines.
DrawLinesIndices(e) ==
    {i \in 0..Len(e[1]) : i % 2 = 0 /\ i < Len(e[1]) - 1}

\* One iteration of the loop of DrawLines (column i of the source is
\* column i + 1 here).
DrawLinesBody(e, s, color, i) ==
    LET point == ExtractColumn(e, i + 1)
        nextPoint == ExtractColumn(e, i + 2)
    IN  DrawLine(s, color, Fix(point[1]), Fix(point[2]),
                 Fix(nextPoint[1]), Fix(nextPoint[2]))

\* The iterations i = 2 * lo, ..., 2 * hi in this order (split in two halves
\* to keep the evaluation shallow).
RECURSIVE DrawLinesRange(_, _, _, _, _)
DrawLinesRange(e, s, color, lo, hi) ==
    IF ~s.ok \/ lo > hi THEN s
    ELSE IF lo = hi THEN DrawLinesBody(e, s, color, 2 * lo)
    ELSE LET mid == (lo + hi) \div 2
         IN  DrawLinesRange(e, DrawLinesRange(e, s, color, lo, mid), color,
                            mid + 1, hi)

DrawLines(e, s, color) ==
    DrawLinesRange(e, s, color, 0, Cardinality(DrawLinesIndices(e)) - 1)

\* SetColor overwriting the array that DefaultDrawColor refers to.
SetColorInPlace(c, color) ==
    IF color = "yellow"
    THEN [c EXCEPT !.heap[c.cur] = <<255, 255, 0>>]
    ELSE IF color = "white"
    THEN [c EXCEPT !.heap[c.cur] = <<255, 255, 255>>]
    ELSE IF color = "black"
    THEN [c EXCEPT !.heap[c.cur] = <<0, 0, 0>>]
    ELSE c

\* SetColor on the colour state c = [heap, cur]: a recognised name makes
\* DefaultDrawColor a newly allocated array.
SetColor(c, color) ==
    IF color = "yellow"
    THEN [heap |-> Append(c.heap, <<255, 255, 0>>), cur |-> Len(c.heap) + 1]
    ELSE IF color = "white"
    THEN [heap |-> Append(c.heap, <<255, 255, 255>>), cur |-> Len(c.heap) + 1]
    ELSE IF color = "black"
    THEN [heap |-> Append(c.heap, <<0, 0, 0>>), cur |-> Len(c.heap) + 1]
    ELSE c

(***************************************************************************)
(* main.go and parser/parser.go: the script interpreter                    *)
(***************************************************************************)

\* The scripts read: every argument line is well formed and holds one of
\* these argument lists.
LineArgs == {<<0, 0, 0, 3, 1, 0>>, <<1, 3, 0, 1, 1, 0>>}
BoxArgs == {<<1, 3, 0, 2, 2, 1>>}
MoveArgs == {<<1, 0, 0>>, <<0, 1, 2>>}
CircleArgs == {<<2, 2, 0, 1>>}
CurveArgs == {<<0, 0, 1, 3, 3, 3, 4, 0>>}
SphereArgs == {<<2, 2, 0, 1>>}
TorusArgs == {<<2, 2, 0, 1, 2>>}
ScaleArgs == {<<2, 2, 2>>, <<1, -1, 1>>}
Axes == {"x", "y", "z", "w"}
Degrees == {90}
ColorNames == {"yellow", "white", "black", "red"}
\* Command lines that ParseFile compares with no command name.
OtherLines == {"translate"}

\* main: the screen, the empty transform and the edge matrix of 4 nil rows.
Init ==
    /\ transform = <<>>
    /\ edges = <<<<>>, <<>>, <<>>, <<>>>>
    /\ screen = NewScreen
    /\ DefaultDrawColor = 1
    /\ heap = <<<<0, 0, 0>>>>
    /\ status = "running"
    /\ line = ""
    /\ params = NoParams
    /\ nread = 0
    /\ plotted = <<>>

\* scanner.Scan() returns a command line and, for a command with
\* arguments, the second Scan its argument line.
Read(cmd, p) ==
    /\ status = "running"
    /\ nread < MaxCmds
    /\ line' = cmd
    /\ params' = p
    /\ nread' = nread + 1

\* scanner.Scan() finds the end of the script.
EndOfFile ==
    /\ status = "running"
    /\ status' = "done"
    /\ UNCHANGED <<transform, edges, screen, DefaultDrawColor, heap, line,
                   params, nread, plotted>>

Ident ==
    /\ Read("ident", NoParams)
    /\ transform' = MakeIdentity(transform)
    /\ UNCHANGED <<edges, screen, DefaultDrawColor, heap, status, plotted>>

\* display: ClearScreen, DrawLines, then DisplayScreen, whose external
\* command may fail.
Display ==
    /\ Read("display", NoParams)
    /\ IF DrawLinesPanics(edges)
       THEN /\ screen' = ClearScreen(screen)
            /\ status' = "panic"
            /\ UNCHANGED plotted
       ELSE LET s == DrawLines(edges, [ok |-> TRUE, scr |-> ClearScreen(screen)],
                               DefaultDrawColor)
            IN  /\ screen' = s.scr
                /\ UNCHANGED plotted
                /\ \E shown \in BOOLEAN :
                       status' = IF s.ok /\ shown THEN "running" ELSE "panic"
    /\ UNCHANGED <<transform, edges, DefaultDrawColor, heap>>

Clear ==
    /\ Read("clear", NoParams)
    /\ edges' = <<<<>>, <<>>, <<>>, <<>>>>
    /\ UNCHANGED <<transform, screen, DefaultDrawColor, heap, status, plotted>>

Apply ==
    /\ Read("apply", NoParams)
    /\ IF MultiplyPanics(transform, edges)
       THEN status' = "panic" /\ UNCHANGED edges
       ELSE edges' = MultiplyMatrices(transform, edges) /\ UNCHANGED status
    /\ UNCHANGED <<transform, screen, DefaultDrawColor, heap, plotted>>

Quit ==
    /\ Read("quit", NoParams)
    /\ status' = "done"
    /\ UNCHANGED <<transform, edges, screen, DefaultDrawColor, heap, plotted>>

Draw ==
    /\ Read("draw", NoParams)
    /\ IF DrawLinesPanics(edges)
       THEN status' = "panic" /\ UNCHANGED screen
       ELSE LET s == DrawLines(edges, [ok |-> TRUE, scr |-> screen],
                               DefaultDrawColor)
            IN  /\ screen' = s.scr
                /\ status' = IF s.ok THEN "running" ELSE "panic"
    /\ UNCHANGED <<transform, edges, DefaultDrawColor, heap, plotted>>

\* show: DisplayScreen, whose external command may fail.
Show ==
    /\ Read("show", NoParams)
    /\ \E shown \in BOOLEAN : status' = IF shown THEN "running" ELSE "panic"
    /\ UNCHANGED <<transform, edges, screen, DefaultDrawColor, heap, plotted>>

\* A line that contains "color": its second field names the colour.
Color ==
    \E name \in ColorNames :
        /\ Read("color", [word |-> name, nums |-> <<>>])
        /\ LET c == SetColor([heap |-> heap, cur |-> DefaultDrawColor], name)
           IN  heap' = c.heap /\ DefaultDrawColor' = c.cur
        /\ UNCHANGED <<transform, edges, screen, status, plotted>>

\* An empty line or a comment.
Skip ==
    /\ Read("#", NoParams)
    /\ UNCHANGED <<transform, edges, screen, DefaultDrawColor, heap, status,
                   plotted>>

\* save: WriteScreenToExtension, whose external command may fail.
Save ==
    /\ Read("save", [word |-> "pic.png", nums |-> <<>>])
    /\ \E saved \in BOOLEAN : status' = IF saved THEN "running" ELSE "panic"
    /\ UNCHANGED <<transform, edges, screen, DefaultDrawColor, heap, plotted>>

Line ==
    \E a \in LineArgs :
        /\ Read("line", [word |-> "", nums |-> a])
        /\ IF AddPanics(edges)
           THEN status' = "panic" /\ UNCHANGED edges
           ELSE edges' = AddEdge(edges, a) /\ UNCHANGED status
        /\ UNCHANGED <<transform, screen, DefaultDrawColor, heap, plotted>>

Box ==
    \E a \in BoxArgs :
        /\ Read("box", [word |-> "", nums |-> a])
        /\ IF AddPanics(edges)
           THEN status' = "panic" /\ UNCHANGED edges
           ELSE edges' = AddBox(edges, a) /\ UNCHANGED status
        /\ UNCHANGED <<transform, screen, DefaultDrawColor, heap, plotted>>

Circle ==
    \E a \in CircleArgs :
        /\ Read("circle", [word |-> "", nums |-> a])
        /\ IF AddPanics(edges)
           THEN status' = "panic" /\ UNCHANGED edges
           ELSE edges' = AddCircle(edges, a) /\ UNCHANGED status
        /\ UNCHANGED <<transform, screen, DefaultDrawColor, heap, plotted>>

Sphere ==
    \E a \in SphereArgs :
        /\ Read("sphere", [word |-> "", nums |-> a])
        /\ IF AddPanics(edges)
           THEN status' = "panic" /\ UNCHANGED edges
           ELSE edges' = AddSphere(edges, a) /\ UNCHANGED status
        /\ UNCHANGED <<transform, screen, DefaultDrawColor, heap, plotted>>

Torus ==
    \E a \in TorusArgs :
        /\ Read("torus", [word |-> "", nums |-> a])
        /\ IF AddPanics(edges)
           THEN status' = "panic" /\ UNCHANGED edges
           ELSE edges' = AddTorus(edges, a) /\ UNCHANGED status
        /\ UNCHANGED <<transform, screen, DefaultDrawColor, heap, plotted>>

\* The step that ParseFile passes to AddCurve.
CurveStep == Milli

\* hermite and bezier.
Curve ==
    \E cmd \in {"hermite", "bezier"}, p \in CurveArgs :
        /\ Read(cmd, [word |-> "", nums |-> p])
        /\ IF AddPanics(edges)
           THEN status' = "panic" /\ UNCHANGED edges
           ELSE edges' = AddCurve(edges, p, CurveStep, cmd) /\ UNCHANGED status
        /\ UNCHANGED <<transform, screen, DefaultDrawColor, heap, plotted>>

\* The step matrix that the last branch of ParseFile builds: stepTransform
\* stays nil unless the line is move, scale or rotate with axis x, y or z.
StepTransform(cmd, p) ==
    IF cmd = "move" THEN MakeTranslationMatrix(p.nums)
    ELSE IF cmd = "scale" THEN MakeDilationMatrix(p.nums)
    ELSE IF cmd = "rotate" /\ p.word = "x" THEN MakeRotX(p.nums[1])
    ELSE IF cmd = "rotate" /\ p.word = "y" THEN MakeRotY(p.nums[1])
    ELSE IF cmd = "rotate" /\ p.word = "z" THEN MakeRotZ(p.nums[1])
    ELSE <<>>

\* ComposeStep with the operands of MultiplyMatrices exchanged.
ComposeStepRight(t, stepTransform) ==
    IF Len(t) = 0 \/ Len(stepTransform) = 0 THEN stepTransform
    ELSE MultiplyMatrices(t, stepTransform)

\* The running transform after the step: the step itself when the transform
\* is empty, else MultiplyMatrices(&stepTransform, &transform).
ComposeStep(t, stepTransform) ==
    IF Len(t) = 0 THEN stepTransform ELSE MultiplyMatrices(stepTransform, t)

\* The last branch of ParseFile, for the line cmd with arguments p.
Step(cmd, p) ==
    /\ Read(cmd, p)
    /\ \E stepTransform \in {StepTransform(cmd, p)} :
           IF Len(transform) # 0 /\ MultiplyPanics(stepTransform, transform)
           THEN status' = "panic" /\ UNCHANGED transform
           ELSE /\ transform' = ComposeStep(transform, stepTransform)
                /\ UNCHANGED status
    /\ UNCHANGED <<edges, screen, DefaultDrawColor, heap, plotted>>

Move == \E a \in MoveArgs : Step("move", [word |-> "", nums |-> a])

Scale == \E a \in ScaleArgs : Step("scale", [word |-> "", nums |-> a])

Rotate ==
    \E axis \in Axes, theta \in Degrees :
        Step("rotate", [word |-> axis, nums |-> <<theta>>])

\* Any other line: it is taken for a command with an argument line.
Other ==
    \E cmd \in OtherLines, a \in MoveArgs :
        Step(cmd, [word |-> "", nums |-> a])

Next ==
    \/ EndOfFile
    \/ Ident
    \/ Display
    \/ Clear
    \/ Apply
    \/ Quit
    \/ Draw
    \/ Show
    \/ Color
    \/ Skip
    \/ Save
    \/ Line
    \/ Box
    \/ Move
    \/ Scale
    \/ Rotate
    \/ Other

Spec == Init /\ [][Next]_vars

(***************************************************************************)
(* Scripts of shape commands: line, circle, hermite, bezier, box, sphere,  *)
(* torus, clear and apply, read from the state that main sets up.          *)
(***************************************************************************)

ShapesLeft == nread < MaxShapes

NextShapes ==
    \/ EndOfFile
    \/ ShapesLeft /\ Clear
    \/ ShapesLeft /\ Apply
    \/ ShapesLeft /\ Line
    \/ ShapesLeft /\ Box
    \/ ShapesLeft /\ Circle
    \/ ShapesLeft /\ Curve
    \/ ShapesLeft /\ Sphere
    \/ ShapesLeft /\ Torus

SpecShapes == Init /\ [][NextShapes]_vars

(***************************************************************************)
(* Direct calls of package draw: one call of plot, DrawLine or AddBox on a *)
(* state that main and SetColor set up.                                     *)
(***************************************************************************)

\* The coordinates passed to plot: from -2 to XRES + 1 in steps of 1 / Den.
PlotCoords == (-2 * Den)..((XRES + 1) * Den)
\* The integer endpoint coordinates passed to DrawLine.
LineCoords == (-1)..XRES
\* The corner and the dimensions passed to AddBox.
BoxCorners == {0, 1}
BoxDims == {-1, 0, 1, 2}

InitCalls ==
    /\ transform = <<>>
    /\ edges \in {<<<<>>, <<>>, <<>>, <<>>>>,
                  AddEdge(<<<<>>, <<>>, <<>>, <<>>>>, <<0, 0, 0, 1, 1, 1>>)}
    /\ screen = NewScreen
    /\ \E name \in ColorNames :
           LET c == SetColor([heap |-> <<<<0, 0, 0>>>>, cur |-> 1], name)
           IN  heap = c.heap /\ DefaultDrawColor = c.cur
    /\ status = "running"
    /\ line = ""
    /\ params = NoParams
    /\ nread = 0
    /\ plotted = <<>>

\* No call was made yet.
Ready == status = "running" /\ nread = 0

Call(cmd, p) ==
    /\ line' = cmd
    /\ params' = p
    /\ nread' = 1

CallPlot ==
    Ready /\ \E x \in PlotCoords, y \in PlotCoords :
        /\ Call("plot", [word |-> "", nums |-> <<x, y>>])
        /\ LET s == plot([ok |-> TRUE, scr |-> screen], DefaultDrawColor, x, y)
           IN  /\ screen' = s.scr
               /\ status' = IF s.ok THEN "done" ELSE "panic"
        /\ UNCHANGED <<transform, edges, DefaultDrawColor, heap, plotted>>

CallDrawLine ==
    Ready /\ \E x0 \in LineCoords, y0 \in LineCoords, x1 \in LineCoords,
       y1 \in LineCoords :
        /\ Call("drawline", [word |-> "", nums |-> <<x0, y0, x1, y1>>])
        /\ plotted' = DrawLinePoints(Fix(x0), Fix(y0), Fix(x1), Fix(y1))
        /\ LET s == DrawLine([ok |-> TRUE, scr |-> screen], DefaultDrawColor,
                             Fix(x0), Fix(y0), Fix(x1), Fix(y1))
           IN  /\ screen' = s.scr
               /\ status' = IF s.ok THEN "done" ELSE "panic"
        /\ UNCHANGED <<transform, edges, DefaultDrawColor, heap>>

CallAddBox ==
    Ready /\ \E x \in BoxCorners, y \in BoxCorners, z \in BoxCorners,
       width \in BoxDims, height \in BoxDims, depth \in BoxDims :
        /\ Call("box", [word |-> "",
                        nums |-> <<x, y, z, width, height, depth>>])
        /\ IF AddPanics(edges)
           THEN status' = "panic" /\ UNCHANGED edges
           ELSE /\ edges' = AddBox(edges, <<x, y, z, width, height, depth>>)
                /\ status' = "done"
        /\ UNCHANGED <<transform, screen, DefaultDrawColor, heap, plotted>>

NextCalls ==
    \/ CallPlot
    \/ CallDrawLine
    \/ CallAddBox

SpecCalls == InitCalls /\ [][NextCalls]_vars

(***************************************************************************)
(* Properties                                                              *)
(***************************************************************************)

\* The 4 x n product of a 4 x 4 matrix a and a 4 x n matrix b, entry by
\* entry: column j of the product is a times column j of b.
Product(a, b) ==
    [i \in 1..4 |->
        [j \in 1..Len(b[1]) |->
            a[i][1] * b[1][j] + a[i][2] * b[2][j] + a[i][3] * b[3][j]
                + a[i][4] * b[4][j]]]

Identity4 ==
    <<<<1, 0, 0, 0>>, <<0, 1, 0, 0>>, <<0, 0, 1, 0>>, <<0, 0, 0, 1>>>>

\* The step just taken read the command line cmd.
Reads(cmd) == line' = cmd /\ nread' = nread + 1

\* C1: an apply with a 4 x 4 running transform T replaces the edge matrix E
\* (4 rows) by the product T x E, with as many columns as E, and leaves the
\* running transform, the pixel buffer and the run's status unchanged.
C1_ApplyReplacesEdges ==
    [][(Reads("apply") /\ Len(transform) = 4 /\ Len(edges) = 4) =>
          /\ edges' = Product(transform, edges)
          /\ \A i \in 1..4 : Len(edges'[i]) = Len(edges[i])
          /\ transform' = transform
          /\ screen' = screen
          /\ status' = status]_vars

\* C1 happens: the line (0,0,0)-(3,1,0) moved by (1,0,0), then moved by the
\* same transform a second time.
C1_Witness ==
    /\ line = "apply"
    /\ status = "running"
    /\ transform = MakeTranslationMatrix(<<1, 0, 0>>)
    /\ edges = <<<<2, 5>>, <<0, 1>>, <<0, 0>>, <<1, 1>>>>

\* The step just taken read move, scale or rotate about x, y or z.
ReadsStep ==
    /\ nread' = nread + 1
    /\ \/ line' \in {"move", "scale"}
       \/ line' = "rotate" /\ params'.word \in {"x", "y", "z"}

\* C2 as claimed: with a running transform T, a move, scale or rotate step
\* with step matrix S makes the running transform T x S; with no transform
\* yet, S.
C2_RightMultiply ==
    [][ReadsStep =>
          \A S \in {StepTransform(line', params')} :
              transform' = IF Len(transform) = 0 THEN S
                           ELSE Product(transform, S)]_vars

\* C2 as amended: with a running transform T, a move, scale or rotate step
\* with step matrix S makes the running transform S x T (the step on the
\* left); with no transform yet, S.
C2_LeftMultiply ==
    [][ReadsStep =>
          \A S \in {StepTransform(line', params')} :
              transform' = IF Len(transform) = 0 THEN S
                           ELSE Product(S, transform)]_vars

\* C2 happens: move by (1,0,0), then scale by (2,2,2): the scale is applied
\* to the translation too.
C2_Witness ==
    /\ line = "scale"
    /\ status = "running"
    /\ transform = <<<<2, 0, 0, 2>>, <<0, 2, 0, 0>>, <<0, 0, 2, 0>>,
                     <<0, 0, 0, 1>>>>

\* C3 as claimed: after ident the running transform is the 4 x 4 identity,
\* and an apply that follows ident leaves the edge matrix as it was.
C3_IdentResets ==
    [][/\ Reads("ident") => transform' = Identity4
       /\ (line = "ident" /\ status = "running" /\ Reads("apply")) =>
              (edges' = edges /\ status' = "running")]_vars

\* The colour that a colour array holds.
CurrentColor == ColorOf(heap, DefaultDrawColor)

\* C4: a call of plot raises no error; with (rx, ry) the rounded
\* coordinates, it writes the current draw colour to the one cell at row
\* YRES-1-ry, column rx when 0 <= rx < XRES and 0 <= ry < YRES, and leaves
\* every cell unchanged otherwise.
C4_PlotInBounds ==
    [][Reads("plot") =>
          LET rx == float64ToInt(params'.nums[1])
              ry == float64ToInt(params'.nums[2])
          IN  /\ status' # "panic"
              /\ DOMAIN screen' = 0..(YRES - 1)
              /\ \A r \in 0..(YRES - 1) :
                     /\ DOMAIN screen'[r] = 0..(XRES - 1)
                     /\ \A c \in 0..(XRES - 1) :
                            screen'[r][c] =
                                IF /\ rx >= 0 /\ rx < XRES
                                   /\ ry >= 0 /\ ry < YRES
                                   /\ r = YRES - 1 - ry /\ c = rx
                                THEN DefaultDrawColor
                                ELSE screen[r][c]]_vars

\* C4 happens: yellow is plotted at the bottom right corner (XRES-1, 0).
C4_Witness ==
    /\ line = "plot"
    /\ float64ToInt(params.nums[1]) = XRES - 1
    /\ float64ToInt(params.nums[2]) = 0
    /\ ColorOf(heap, screen[YRES - 1][XRES - 1]) = <<255, 255, 0>>

Abs(n) == IF n < 0 THEN -n ELSE n

Max(a, b) == IF a > b THEN a ELSE b

\* The points (x0, y0), (x0 + 1, y0 + dy), ..., n + 1 of them.
Run(x0, y0, dx, dy, n) ==
    [k \in 1..(n + 1) |-> <<Fix(x0 + (k - 1) * dx), Fix(y0 + (k - 1) * dy)>>]

\* C5: DrawLine between integer endpoints plots max(|x1-x0|, |y1-y0|) + 1
\* cells, the first and the last being the two endpoints; from one plot to
\* the next the dominant axis advances by exactly 1 and the minor axis by 0
\* or 1, each in a constant direction; the buffer holds the draw colour at
\* the plotted cells that lie in it and is unchanged elsewhere; and
\* (0,0)-(4,0), (0,0)-(0,4), (0,0)-(4,4) plot the 5 cells of the row, the
\* column and the diagonal.
C5_DrawLineCells ==
    line = "drawline" =>
        LET x0 == params.nums[1]  y0 == params.nums[2]
            x1 == params.nums[3]  y1 == params.nums[4]
            n == Max(Abs(x1 - x0), Abs(y1 - y0))
            dom == IF Abs(x1 - x0) >= Abs(y1 - y0) THEN 1 ELSE 2
            min == 3 - dom
        IN  /\ status = "done"
            /\ Len(plotted) = n + 1
            /\ {plotted[1], plotted[n + 1]} =
                   {<<Fix(x0), Fix(y0)>>, <<Fix(x1), Fix(y1)>>}
            /\ \E sd \in {-1, 1}, sm \in {-1, 1} :
                   \A k \in 1..n :
                       /\ plotted[k + 1][dom] - plotted[k][dom] = Fix(sd)
                       /\ plotted[k + 1][min] - plotted[k][min]
                              \in {0, Fix(sm)}
            /\ \A r \in 0..(YRES - 1), c \in 0..(XRES - 1) :
                   screen[r][c] =
                       IF \E k \in 1..(n + 1) :
                              plotted[k] = <<Fix(c), Fix(YRES - 1 - r)>>
                       THEN DefaultDrawColor
                       ELSE FreshBlack
            /\ params.nums = <<0, 0, 4, 0>> => plotted = Run(0, 0, 1, 0, 4)
            /\ params.nums = <<0, 0, 0, 4>> => plotted = Run(0, 0, 0, 1, 4)
            /\ params.nums = <<0, 0, 4, 4>> => plotted = Run(0, 0, 1, 1, 4)

\* C5 happens: the steep falling line (1,4)-(0,0), drawn from (0,0) after
\* the swap of its endpoints.
C5_Witness ==
    /\ line = "drawline"
    /\ params.nums = <<1, 4, 0, 0>>
    /\ Len(plotted) = 5
    /\ plotted[1] = <<Fix(0), Fix(0)>>
    /\ plotted[5] = <<Fix(1), Fix(4)>>

\* The nearest integer of the fixed-point number f, halves rounded up:
\* floor(f + 0.5).
RoundHalfUp(f) == (2 * f + Den) \div (2 * Den)

\* C6 as claimed: plot rounds each coordinate f to floor(f + 0.5), so a
\* call whose rounded x is outside [0, XRES) or whose rounded y is outside
\* [0, YRES) writes nothing.
C6_RoundsHalfUp ==
    line = "plot" =>
        LET x == params.nums[1]
            y == params.nums[2]
        IN  /\ float64ToInt(x) = RoundHalfUp(x)
            /\ float64ToInt(y) = RoundHalfUp(y)
            /\ (RoundHalfUp(x) \notin 0..(XRES - 1)
                    \/ RoundHalfUp(y) \notin 0..(YRES - 1))
                   => screen = NewScreen

\* Column j of an edge matrix, as the point (x, y, z).
PointAt(e, j) == <<e[1][j], e[2][j], e[3][j]>>

\* C7: AddBox with non-zero width, height and depth appends 24 columns, the
\* earlier columns unchanged: 12 edges, pairwise distinct as unordered
\* endpoint pairs, between corners of {x, x+width} x {y, y-height} x
\* {z, z-depth}, the endpoints of each differing in exactly one coordinate,
\* 4 edges along each axis.
C7_BoxTwelveEdges ==
    [][(Reads("box") /\ params'.nums[4] # 0 /\ params'.nums[5] # 0
            /\ params'.nums[6] # 0) =>
          LET a == params'.nums
              n == Len(edges[1])
              P(k) == PointAt(edges', n + 2 * k - 1)
              Q(k) == PointAt(edges', n + 2 * k)
              corners == {a[1], a[1] + a[4]} \X {a[2], a[2] - a[5]}
                             \X {a[3], a[3] - a[6]}
          IN  /\ status' = "done"
              /\ Len(edges') = 4
              /\ \A i \in 1..4 :
                     /\ Len(edges'[i]) = n + 24
                     /\ \A j \in 1..n : edges'[i][j] = edges[i][j]
              /\ \A k \in 1..12 :
                     /\ P(k) \in corners
                     /\ Q(k) \in corners
                     /\ Cardinality({i \in 1..3 : P(k)[i] # Q(k)[i]}) = 1
              /\ \A i \in 1..3 :
                     Cardinality({k \in 1..12 : P(k)[i] # Q(k)[i]}) = 4
              /\ \A k \in 1..12, l \in 1..12 :
                     k # l => {P(k), Q(k)} # {P(l), Q(l)}]_vars

\* C7 happens: a box of width 2, height 1 and depth -1 is added after the
\* edge that the matrix already held.
C7_Witness ==
    /\ line = "box"
    /\ params.nums = <<1, 0, 1, 2, 1, -1>>
    /\ Len(edges[1]) = 26
    /\ PointAt(edges, 2) = <<1, 1, 1>>
    /\ PointAt(edges, 26) = <<3, -1, 2>>

\* C8 as claimed: a translate line with arguments (tx, ty, tz) multiplies the
\* translation matrix into the running transform (it becomes the
\* translation matrix when the transform was empty or the identity), and an
\* apply that follows moves every edge point by (tx, ty, tz).
C8_TranslateMoves ==
    [][/\ (Reads("translate")
              /\ (Len(transform) = 0 \/ transform = Identity4)) =>
              transform' = MakeTranslationMatrix(params'.nums)
       /\ (line = "translate" /\ status = "running" /\ Reads("apply")
              /\ Len(edges) = 4) =>
              /\ status' = "running"
              /\ Len(edges') = 4
              /\ \A i \in 1..4 : Len(edges'[i]) = Len(edges[i])
              /\ \A j \in 1..Len(edges[1]) :
                     PointAt(edges', j) =
                         <<edges[1][j] + params.nums[1],
                           edges[2][j] + params.nums[2],
                           edges[3][j] + params.nums[3]>>]_vars

\* C9 as claimed: a rotate whose axis is not x, y or z aborts the run.
C9_BadAxisAborts ==
    (line = "rotate" /\ params.word \notin {"x", "y", "z"}) =>
        status = "panic"

\* C10: the draw colour is black at first; a color command makes it
\* (255,255,0) for yellow, (255,255,255) for white, (0,0,0) for black and
\* leaves it as it was for any other name; it changes neither the colour of
\* any pixel nor the matrices nor the run's status; no other command
\* changes the draw colour.
C10_SetColorOnlyColor ==
    /\ CurrentColor = <<0, 0, 0>>
    /\ [][IF Reads("color")
          THEN /\ ColorOf(heap', DefaultDrawColor') =
                      IF params'.word = "yellow" THEN <<255, 255, 0>>
                      ELSE IF params'.word = "white" THEN <<255, 255, 255>>
                      ELSE IF params'.word = "black" THEN <<0, 0, 0>>
                      ELSE CurrentColor
               /\ \A r \in 0..(YRES - 1), c \in 0..(XRES - 1) :
                      ColorOf(heap', screen'[r][c]) =
                          ColorOf(heap, screen[r][c])
               /\ transform' = transform
               /\ edges' = edges
               /\ status' = status
          ELSE ColorOf(heap', DefaultDrawColor') = CurrentColor]_vars

\* C10 happens: a pixel plotted in yellow keeps yellow after the draw colour
\* became white.
C10_Witness ==
    /\ line = "color"
    /\ params.word = "white"
    /\ CurrentColor = <<255, 255, 255>>
    /\ \E r \in 0..(YRES - 1), c \in 0..(XRES - 1) :
           /\ screen[r][c] # FreshBlack
           /\ ColorOf(heap, screen[r][c]) = <<255, 255, 0>>

\* The number of columns of an edge matrix (none when it has no row).
Cols(e) == IF Len(e) = 0 THEN 0 ELSE Len(e[1])

\* The step appended the columns n + 1 .. n + count, one for each value of
\* t = 0, 0 + step, (0 + step) + step, ... (float64 sums) that is <= 1, in
\* this order: x and y are terms over t, z is 0.
SampledFrom(n, count, step) ==
    LET t(k) == edges'[1][n + k].t
    IN  /\ Cols(edges') = n + count
        /\ t(1) = Zero
        /\ \A k \in 1..(count - 1) : t(k + 1) = FloatAdd(t(k), step)
        /\ \A k \in 1..count :
               /\ FloatLeq(t(k), One)
               /\ edges'[2][n + k].t = t(k)
               /\ edges'[3][n + k] = 0
               /\ edges'[4][n + k] = 1
        /\ ~FloatLeq(FloatAdd(t(count), step), One)

\* The values of i at which DrawLines rasterizes the pair of columns
\* (i, i + 1) of e; DrawLines panics on a matrix of no row.
DrawnPairs(e) == IF Len(e) = 0 THEN {} ELSE DrawLinesIndices(e)

\* C11: after every command of a script of line, circle, hermite, bezier,
\* box, sphere, torus, clear and apply commands the edge matrix has an even
\* number of columns and every column is in exactly one of the pairs
\* (2k, 2k+1) that DrawLines rasterizes; a line appends its edge as such a
\* pair made of its own two endpoints, a box its 12 edges as 12 such pairs,
\* a sphere and a torus each point p with p + 1 as such a pair; a circle
\* and a curve append one column per sample t = 0, step, 2 * step, ... while
\* t <= 1 (float64 sums of step = 0.001), which are 1000 columns.
C11_EdgePairs ==
    [][\A D \in {DrawnPairs(edges')} :
       LET n == Cols(edges)
           a == params'.nums
           added == Cols(edges') - n
       IN  /\ Cols(edges') % 2 = 0
           /\ \A k \in 0..(Cols(edges') - 1) :
                  Cardinality({i \in {k - 1, k} : i \in D}) = 1
           /\ (Reads("line") /\ status' = "running") =>
                  /\ added = 2
                  /\ n \in D
                  /\ PointAt(edges', n + 1) = <<a[1], a[2], a[3]>>
                  /\ PointAt(edges', n + 2) = <<a[4], a[5], a[6]>>
           /\ (Reads("box") /\ status' = "running") =>
                  /\ added = 24
                  /\ \A k \in 0..11 :
                         /\ n + 2 * k \in D
                         /\ PointAt(edges', n + 2 * k + 1)
                                \o PointAt(edges', n + 2 * k + 2)
                              = BoxEdges(a)[k + 1]
           /\ ((Reads("sphere") \/ Reads("torus")) /\ status' = "running") =>
                  /\ added > 0
                  /\ added % 2 = 0
                  /\ \A k \in 0..(added \div 2 - 1) :
                         /\ n + 2 * k \in D
                         /\ \A c \in 1..3 :
                                edges'[c][n + 2 * k + 2]
                                  = [fn |-> "p+1",
                                     p |-> edges'[c][n + 2 * k + 1]]
           /\ (Reads("circle") /\ status' = "running") =>
                  /\ added = 1000
                  /\ SampledFrom(n, added, CircleStep)
           /\ ((Reads("hermite") \/ Reads("bezier")) /\ status' = "running") =>
                  /\ added = 1000
                  /\ SampledFrom(n, added, CurveStep)]_vars

\* C11 happens: a line is read after a circle, and its edge follows the
\* circle's 1000 columns.
C11_Witness ==
    /\ line = "line"
    /\ status = "running"
    /\ Cols(edges) = 1002
    /\ edges[1][1000].fn = "r*cos(2*pi*t)+c"
    /\ PointAt(edges, 1001) = <<params.nums[1], params.nums[2], params.nums[3]>>


\* C12 as claimed: in every state that the interpreter reaches without a
\* panic, from the state that main sets up, the edge matrix has exactly 4
\* rows, the rows have one length, and the 4th component of every column
\* is 1.
C12_FourRowsHomogeneous ==
    status # "panic" =>
        /\ Len(edges) = 4
        /\ \A i \in 1..Len(edges) : Len(edges[i]) = Len(edges[1])
        /\ \A j \in 1..Cols(edges) : edges[Len(edges)][j] = 1

====
